---- MODULE Spec2Model ----
(***************************************************************************)
(* A model of mplexporter's renderer contract and utilities:               *)
(*   - mplexporter/renderers/base.py  class Renderer (scopes, leaf draws)  *)
(*   - mplexporter/renderer.py        class Renderer (older variant)       *)
(*   - mplexporter/utils.py           get_dasharray, SVG_path, color_to_hex*)
(*                                                                         *)
(* Three specifications share the variables:                               *)
(*   Spec       the draw_figure / draw_axes context managers, driven by a  *)
(*              caller that nests with-blocks and whose nested work may    *)
(*              raise;                                                     *)
(*   SpecLeaf   the leaf draw operations, each applied to bounded inputs;  *)
(*   SpecUtils  the pure functions of utils.py applied to bounded inputs.  *)
(*                                                                         *)
(* The code is Python 2 (itertools.izip / imap); it is modelled with the   *)
(* semantics of that interpreter.                                          *)
(***************************************************************************)
EXTENDS Integers, Sequences, FiniteSets, TLC

VARIABLES
    cls,             \* the class of the renderer instance
    current_fig,     \* self._current_fig : "Unset" (no attribute), "None", or a figure
    fig_properties,  \* self._fig_properties : "Unset", "{}", or a properties dict
    current_ax,      \* self._current_ax
    ax_properties,   \* self._ax_properties
    stack,           \* the caller's open with-blocks, innermost last
    entered,         \* number of with-blocks the caller has entered so far
    log,             \* hook calls and warnings, in call order
    op,              \* the last leaf / utility call and its arguments
    calls,           \* the draw_path calls that call made, in order
    result           \* how that call ended

vars == <<cls, current_fig, fig_properties, current_ax, ax_properties,
          stack, entered, log, op, calls, result>>

-----------------------------------------------------------------------------
(* Bounds *)

MaxDepth == 3      \* deepest nesting of the caller's with-blocks
MaxScopes == 3     \* with-blocks entered in one behaviour

Figs == {"fig1", "fig2"}
Axs == {"ax1", "ax2"}
Props == {"props1"}

\* renderer.py Renderer, renderers/base.py Renderer, and a subclass of the
\* latter that overrides the three abstract leaves.
Classes == {"renderer.Renderer", "base.Renderer", "Concrete"}

NoOp == [name |-> "none"]
NoResult == [outcome |-> "none"]

-----------------------------------------------------------------------------
(* Scopes: draw_figure / draw_axes                                         *)

\* hasattr(self, "_current_x") and self._current_x is not None
Embedded(cur) == cur # "Unset" /\ cur # "None"

\* One entry of the log.  cur is the value of the renderer's current
\* reference (of the event's kind) at the moment of the call; sid is the
\* with-block the call belongs to.
Event(ev, kind, arg, cur, sid) ==
    [ev |-> ev, kind |-> kind, arg |-> arg, cur |-> cur, sid |-> sid]

\* self._fig_properties = properties (base.py only; renderer.py takes no
\* properties and keeps none)
SetProps(old, properties) ==
    IF cls = "renderer.Renderer" THEN old ELSE properties

ClearProps(old) ==
    IF cls = "renderer.Renderer" THEN old ELSE "{}"

\* The part of the generator before the yield: warn when embedded, record
\* the argument, record the properties, call the open hook.
draw_scope_enter(kind, cur, props, lg, arg, properties, sid) ==
    LET lg1 == IF Embedded(cur)
               THEN Append(lg, Event("warn", kind, arg, cur, sid))
               ELSE lg
        cur1 == arg
    IN  [cur   |-> cur1,
         props |-> SetProps(props, properties),
         lg    |-> Append(lg1, Event("open", kind, arg, cur1, sid))]

\* The part of the generator after the yield, run only when the with-block
\* is left normally: call the close hook, clear the reference and the
\* properties.
exit_cleared_first(kind, cur, props, lg, arg, sid) ==
    [cur   |-> "None",
     props |-> ClearProps(props),
     lg    |-> Append(lg, Event("close", kind, arg, "None", sid))]

draw_scope_exit(kind, cur, props, lg, arg, sid) ==
    [cur   |-> "None",
     props |-> ClearProps(props),
     lg    |-> Append(lg, Event("close", kind, arg, cur, sid))]

Frame(kind, arg, sid) == [kind |-> kind, arg |-> arg, sid |-> sid]

Top == stack[Len(stack)]

\* with renderer.draw_figure(fig, properties): ...   (entering)
EnterFigure(fig, properties) ==
    /\ Len(stack) < MaxDepth
    /\ entered < MaxScopes
    /\ LET r == draw_scope_enter("figure", current_fig, fig_properties, log,
                                 fig, properties, entered + 1)
       IN  /\ current_fig' = r.cur
           /\ fig_properties' = r.props
           /\ log' = r.lg
    /\ entered' = entered + 1
    /\ stack' = Append(stack, Frame("figure", fig, entered + 1))
    /\ UNCHANGED <<cls, current_ax, ax_properties, op, calls, result>>

\* with renderer.draw_axes(ax, properties): ...   (entering)
EnterAxes(ax, properties) ==
    /\ Len(stack) < MaxDepth
    /\ entered < MaxScopes
    /\ LET r == draw_scope_enter("axes", current_ax, ax_properties, log,
                                 ax, properties, entered + 1)
       IN  /\ current_ax' = r.cur
           /\ ax_properties' = r.props
           /\ log' = r.lg
    /\ entered' = entered + 1
    /\ stack' = Append(stack, Frame("axes", ax, entered + 1))
    /\ UNCHANGED <<cls, current_fig, fig_properties, op, calls, result>>

\* The body of the innermost with-block ends without an exception: the
\* generator is resumed after its yield.
ExitFigure ==
    /\ stack # <<>>
    /\ Top.kind = "figure"
    /\ LET r == draw_scope_exit("figure", current_fig, fig_properties, log,
                                Top.arg, Top.sid)
       IN  /\ current_fig' = r.cur
           /\ fig_properties' = r.props
           /\ log' = r.lg
    /\ stack' = SubSeq(stack, 1, Len(stack) - 1)
    /\ UNCHANGED <<cls, current_ax, ax_properties, entered, op, calls, result>>

ExitAxes ==
    /\ stack # <<>>
    /\ Top.kind = "axes"
    /\ LET r == draw_scope_exit("axes", current_ax, ax_properties, log,
                                Top.arg, Top.sid)
       IN  /\ current_ax' = r.cur
           /\ ax_properties' = r.props
           /\ log' = r.lg
    /\ stack' = SubSeq(stack, 1, Len(stack) - 1)
    /\ UNCHANGED <<cls, current_fig, fig_properties, entered, op, calls, result>>

\* The nested work of the innermost with-block raises.  The exception is
\* thrown into each generator at its yield; neither generator has a
\* try/finally or an except, so the statements after the yield do not run
\* and the exception leaves the with-block.  It leaves k blocks before the
\* caller catches it (k = Len(stack): nobody catches it inside the
\* traversal).  The renderer object is untouched.
RaiseInNestedWork(k) ==
    /\ stack # <<>>
    /\ k \in 1..Len(stack)
    /\ stack' = SubSeq(stack, 1, Len(stack) - k)
    /\ UNCHANGED <<cls, current_fig, fig_properties, current_ax, ax_properties,
                   entered, log, op, calls, result>>

Init ==
    /\ cls \in Classes
    /\ current_fig = "Unset"
    /\ fig_properties = "Unset"
    /\ current_ax = "Unset"
    /\ ax_properties = "Unset"
    /\ stack = <<>>
    /\ entered = 0
    /\ log = <<>>
    /\ op = NoOp
    /\ calls = <<>>
    /\ result = NoResult

Next ==
    \/ \E fig \in Figs, properties \in Props : EnterFigure(fig, properties)
    \/ \E ax \in Axs, properties \in Props : EnterAxes(ax, properties)
    \/ ExitFigure
    \/ ExitAxes
    \/ \E k \in 1..MaxDepth : RaiseInNestedWork(k)

Spec == Init /\ [][Next]_vars

-----------------------------------------------------------------------------
(* Claims about the scopes                                                 *)

Current(kind) == IF kind = "figure" THEN current_fig ELSE current_ax

\* positions in the log of the open / close hook calls of with-block s
OpenAt(s) == {i \in 1..Len(log) : log[i].ev = "open" /\ log[i].sid = s}
CloseAt(s) == {i \in 1..Len(log) : log[i].ev = "close" /\ log[i].sid = s}

OnStack(s) == \E n \in 1..Len(stack) : stack[n].sid = s
KindOpen(kind) == \E n \in 1..Len(stack) : stack[n].kind = kind
EverOpened(kind) ==
    \E i \in 1..Len(log) : log[i].ev = "open" /\ log[i].kind = kind

\* C1: for draw_figure and draw_axes, on every exit path of the scope,
\* also when the nested work raises, the close hook is called and the
\* current reference is cleared to None: every with-block that has been
\* left has had its close hook called, and once no scope of a kind is open
\* any more the current reference of that kind is None.
C1_CloseOnEveryExit ==
    /\ \A s \in 1..entered : ~OnStack(s) => CloseAt(s) # {}
    /\ \A kind \in {"figure", "axes"} :
          (EverOpened(kind) /\ ~KindOpen(kind)) => Current(kind) = "None"

\* the open hook call at position i was made while a scope of the same
\* kind was current: the latest earlier hook call of that kind is an open
PrecededByOpen(i) ==
    \E j \in 1..(i - 1) :
        /\ log[j].kind = log[i].kind /\ log[j].ev = "open"
        /\ \A m \in (j + 1)..(i - 1) :
              log[m].kind = log[i].kind => log[m].ev = "warn"

WarnedBefore(i) ==
    /\ i > 1
    /\ log[i - 1].ev = "warn"
    /\ log[i - 1].kind = log[i].kind
    /\ log[i - 1].sid = log[i].sid

\* C2: draw_axes (draw_figure) invoked while a current axes (figure) is set
\* emits a warning, does not raise and proceeds (the new argument is
\* current when the open hook is called); after the inner and the outer
\* scope have closed, normally or via an exception in nested work, the
\* current axes / figure is None.
C2_NestedScopes ==
    /\ \A i \in 1..Len(log) :
          log[i].ev = "open" =>
              /\ PrecededByOpen(i) => WarnedBefore(i)
              /\ log[i].cur = log[i].arg
    /\ \A i \in 1..Len(log) :
          log[i].ev = "warn" =>
              /\ i < Len(log)
              /\ log[i + 1].ev = "open"
              /\ log[i + 1].sid = log[i].sid
              /\ log[i + 1].arg = log[i].arg
    /\ \A kind \in {"figure", "axes"} :
          ((\E i \in 1..Len(log) : log[i].ev = "warn" /\ log[i].kind = kind)
              /\ ~KindOpen(kind))
          => Current(kind) = "None"

\* with-block s encloses no other scope of its kind: from its open hook to
\* its close hook (or to now) no open hook of that kind was called
Clean(s) ==
    \A i \in OpenAt(s) : \A j \in (i + 1)..Len(log) :
        (log[j].ev = "open" /\ log[j].kind = log[i].kind)
        => \E k \in CloseAt(s) : k < j

\* C3: for a scope that encloses no scope of its own kind and whose nested
\* work completes normally: the argument is current when the open hook is
\* called, the open hook is called once, the argument stays current during
\* the nested work, the close hook is called once, with the same argument
\* and while it is still current, and then the reference is None; a figure
\* scope's hooks enclose those of the axes scopes opened inside it.
C3_ScopeOrder ==
    /\ \A s \in 1..entered :
          /\ Cardinality(OpenAt(s)) = 1
          /\ \A i \in OpenAt(s) : log[i].cur = log[i].arg
          /\ Cardinality(CloseAt(s)) <= 1
          /\ \A k \in CloseAt(s) : \A i \in OpenAt(s) :
                /\ i < k
                /\ log[k].arg = log[i].arg
                /\ log[k].kind = log[i].kind
                /\ Clean(s) => log[k].cur = log[k].arg
    /\ \A n \in 1..Len(stack) :
          /\ CloseAt(stack[n].sid) = {}
          /\ Clean(stack[n].sid) => Current(stack[n].kind) = stack[n].arg
    /\ \A k \in 1..Len(log) :
          (log[k].ev = "close"
              /\ \A j \in (k + 1)..Len(log) :
                    ~(log[j].ev = "open" /\ log[j].kind = log[k].kind))
          => Current(log[k].kind) = "None"
    /\ \A n, m \in 1..Len(stack) :
          n < m => \A i \in OpenAt(stack[n].sid) : \A j \in OpenAt(stack[m].sid) : i < j
    /\ \A f, a \in 1..entered :
          \A i \in OpenAt(f) : \A k \in CloseAt(f) : \A j \in OpenAt(a) :
              (log[i].kind = "figure" /\ log[j].kind = "axes" /\ i < j /\ j < k)
              => \A l \in CloseAt(a) : l < k

\* a figure scope with one axes scope inside it, both left normally
C3_Witness ==
    /\ stack = <<>>
    /\ Len(log) = 4
    /\ log[1].ev = "open" /\ log[1].kind = "figure"
    /\ log[2].ev = "open" /\ log[2].kind = "axes"
    /\ log[3].ev = "close" /\ log[3].kind = "axes"
    /\ log[4].ev = "close" /\ log[4].kind = "figure"
    /\ current_fig = "None"
    /\ current_ax = "None"

-----------------------------------------------------------------------------
(* Leaf draw operations (renderers/base.py, renderer.py)                   *)

MaxPoints == 3       \* data points of a line / marker set
MaxPaths == 3        \* len(paths) of a path collection
MaxOffsets == 5      \* len(offsets)
MaxTransforms == 2   \* len(path_transforms)
MaxStyleLen == 2     \* len of the edgecolor / linewidth / facecolor lists

Max(a, b) == IF a >= b THEN a ELSE b

\* n * [x]  (a list repeated a negative number of times is empty)
Repeat(x, n) == IF n <= 0 THEN <<>> ELSE [i \in 1..n |-> x]

\* dictionaries are functions on their keys
HasKey(d, k) == k \in DOMAIN d
DictSet(d, k, v) == [x \in DOMAIN d \cup {k} |-> IF x = k THEN v ELSE d[x]]
DictDel(d, k) == [x \in DOMAIN d \ {k} |-> d[x]]
DictOnly(d, keys) == [x \in keys |-> d[x]]

Returned == [outcome |-> "ok"]
Raised(exc) == [outcome |-> exc]
Outcome(cs, res) == [calls |-> cs, result |-> res]

\* offset=None
NoOffset == <<>>

\* the arguments of one draw_path call
PathCall(data, coordinates, pathcodes, style, offset, offset_coordinates) ==
    [data |-> data, coordinates |-> coordinates, pathcodes |-> pathcodes,
     style |-> style, offset |-> offset,
     offset_coordinates |-> offset_coordinates]

\* a draw_path that returns although the class does not override it
draw_path_silent(c, call) == Returned

\* draw_path: abstract in base.py, overridden by a concrete renderer
draw_path(c, call) ==
    IF c = "Concrete" THEN Returned ELSE Raised("NotImplementedError")

\* A loop that calls draw_path once per element of attempts, in order; the
\* first call that raises ends it.
RECURSIVE RunDrawPaths(_, _, _)
RunDrawPaths(c, attempts, done) ==
    IF attempts = <<>> THEN Outcome(done, Returned)
    ELSE LET r == draw_path(c, Head(attempts))
         IN  IF r.outcome = "ok"
             THEN RunDrawPaths(c, Tail(attempts), Append(done, Head(attempts)))
             ELSE Outcome(Append(done, Head(attempts)), r)

\* draw_text, draw_image: abstract in base.py
draw_text(c, text, position, coordinates, style) ==
    IF c = "Concrete" THEN Outcome(<<>>, Returned)
    ELSE Outcome(<<>>, Raised("NotImplementedError"))

draw_image(c, imdata, extent, coordinates, style) ==
    IF c = "Concrete" THEN Outcome(<<>>, Returned)
    ELSE Outcome(<<>>, Raised("NotImplementedError"))

\* one 'L' per vertex
line_pathcodes_extra_L(n) == <<"M">> \o Repeat("L", n)

\* ['M'] + (data.shape[0] - 1) * ['L']
line_pathcodes(n) == <<"M">> \o Repeat("L", n - 1)

\* draw_line: renderer.py raises; base.py decomposes into one draw_path
draw_line(c, data, coordinates, style) ==
    IF c = "renderer.Renderer"
    THEN Outcome(<<>>, Raised("NotImplementedError"))
    ELSE
    LET pathcodes == line_pathcodes(Len(data))
    IN  \* dict(facecolor='none', **style)
        IF HasKey(style, "facecolor") THEN Outcome(<<>>, Raised("TypeError"))
        ELSE
        LET ps0 == DictSet(style, "facecolor", "none")
        IN  \* pathstyle['edgecolor'] = pathstyle.pop('color')
            IF ~HasKey(ps0, "color") THEN Outcome(<<>>, Raised("KeyError"))
            ELSE
            LET ps1 == DictSet(DictDel(ps0, "color"), "edgecolor", ps0["color"])
            IN  \* pathstyle['edgewidth'] = pathstyle.pop('linewidth')
                IF ~HasKey(ps1, "linewidth")
                THEN Outcome(<<>>, Raised("KeyError"))
                ELSE
                LET ps2 == DictSet(DictDel(ps1, "linewidth"),
                                   "edgewidth", ps1["linewidth"])
                IN  RunDrawPaths(c, <<PathCall(data, coordinates, pathcodes,
                                               ps2, NoOffset, "data")>>, <<>>)

\* every key of the marker style kept
marker_pathstyle_all_keys(style) == DictSet(style, "dasharray", "10,0")

\* dict((key, style[key]) for key in ['alpha', 'edgecolor', 'facecolor',
\* 'edgewidth']); pathstyle['dasharray'] = "10,0"
marker_pathstyle(style) ==
    DictSet(DictOnly(style, {"alpha", "edgecolor", "facecolor", "edgewidth"}),
            "dasharray", "10,0")

\* draw_markers: renderer.py raises; base.py emits one draw_path per point
draw_markers(c, data, coordinates, style) ==
    IF c = "renderer.Renderer"
    THEN Outcome(<<>>, Raised("NotImplementedError"))
    ELSE
    LET vertices == style["markerpath"][1]
        pathcodes == style["markerpath"][2]
        pathstyle == marker_pathstyle(style)
    IN  RunDrawPaths(c,
            [n \in 1..Len(data) |->
                PathCall(vertices, "points", pathcodes, pathstyle,
                         data[n], coordinates)], <<>>)

\* utils.color_to_hex.  A colour is 'none', 'None', None, or an RGB triple;
\* a channel h stands for the float h/2, so int(255 * c) is (255 * h) \div 2.
HexDigits == <<"0", "1", "2", "3", "4", "5", "6", "7",
               "8", "9", "A", "B", "C", "D", "E", "F">>

\* '{0:02X}'.format(n) for n in 0..255
Hex2(n) == HexDigits[(n \div 16) + 1] \o HexDigits[(n % 16) + 1]

NoneString == [name |-> "none", rgb |-> <<0, 0, 0>>]
Rgb(r, g, b) == [name |-> "rgb", rgb |-> <<r, g, b>>]

color_to_hex(color) ==
    IF color.name \in {"none", "None", "NoneType"} THEN "none"
    ELSE "#" \o Hex2((255 * color.rgb[1]) \div 2)
             \o Hex2((255 * color.rgb[2]) \div 2)
             \o Hex2((255 * color.rgb[3]) \div 2)

\* np.eye(3)
Eye3 == <<<<1, 0, 0>>, <<0, 1, 0>>, <<0, 0, 1>>>>

\* transforms.Affine2D(matrix).transform(vertices)
AffineTransform(m, vertices) ==
    [n \in 1..Len(vertices) |->
        <<m[1][1] * vertices[n][1] + m[1][2] * vertices[n][2] + m[1][3],
          m[2][1] * vertices[n][1] + m[2][2] * vertices[n][2] + m[2][3]>>]

\* the i-th element (from 0) of itertools.cycle(e), e not empty
Cycle(e, i) == e[(i % Len(e)) + 1]

\* itertools.islice(izip(*imap(cycle, elements)), N): cycle of an empty
\* sequence is exhausted at once, and izip stops with its first exhausted
\* argument
IsliceIzipCycle(elements, N) ==
    IF \E k \in 1..Len(elements) : Len(elements[k]) = 0 THEN <<>>
    ELSE [i \in 1..N |-> [k \in 1..Len(elements) |-> Cycle(elements[k], i - 1)]]

iter_path_collection(paths, path_transforms, offsets, styles) ==
    LET N == Max(Len(paths), Len(offsets))
        pt == IF Len(path_transforms) = 0 THEN <<Eye3>> ELSE path_transforms
        edgecolor == IF Len(styles["edgecolor"]) = 0 THEN <<NoneString>>
                     ELSE styles["edgecolor"]
        facecolor == IF Len(styles["facecolor"]) = 0 THEN <<NoneString>>
                     ELSE styles["facecolor"]
    IN  IsliceIzipCycle(<<paths, pt, offsets, edgecolor,
                          styles["linewidth"], facecolor>>, N)

\* draw_path_collection that tests offset_order only after the loop
draw_path_collection_late_check(c, paths, path_coordinates, path_transforms, offsets, offset_coordinates, offset_order, styles) ==
    LET tups == iter_path_collection(paths, path_transforms, offsets, styles)
        r == RunDrawPaths(c,
                 [i \in 1..Len(tups) |->
                     PathCall(AffineTransform(tups[i][2], tups[i][1][1]),
                              IF path_coordinates = "figure" THEN "points"
                              ELSE path_coordinates,
                              tups[i][1][2],
                              [edgecolor |-> color_to_hex(tups[i][4]),
                               facecolor |-> color_to_hex(tups[i][6]),
                               edgewidth |-> tups[i][5],
                               dasharray |-> "10,0",
                               alpha |-> styles["alpha"],
                               zorder |-> styles["zorder"]],
                              tups[i][3], offset_coordinates)], <<>>)
    IN  IF r.result.outcome = "ok" /\ offset_order = "before"
        THEN Outcome(r.calls, Raised("NotImplementedError"))
        ELSE r

draw_path_collection(c, paths, path_coordinates, path_transforms, offsets, offset_coordinates, offset_order, styles) ==
    IF offset_order = "before"
    THEN Outcome(<<>>, Raised("NotImplementedError"))
    ELSE
    LET tups == iter_path_collection(paths, path_transforms, offsets, styles)
        coords == IF path_coordinates = "figure" THEN "points"
                  ELSE path_coordinates
    IN  RunDrawPaths(c,
            [i \in 1..Len(tups) |->
                LET path == tups[i][1]
                    vertices == AffineTransform(tups[i][2], path[1])
                    pathcodes == path[2]
                    style == [edgecolor |-> color_to_hex(tups[i][4]),
                              facecolor |-> color_to_hex(tups[i][6]),
                              edgewidth |-> tups[i][5],
                              dasharray |-> "10,0",
                              alpha |-> styles["alpha"],
                              zorder |-> styles["zorder"]]
                IN  PathCall(vertices, coords, pathcodes, style,
                             tups[i][3], offset_coordinates)], <<>>)

-----------------------------------------------------------------------------
(* Inputs of the leaf operations                                           *)

Coordinates == {"data", "figure"}
PointSet == {<<0, 0>>, <<1, 1>>, <<2, 0>>}
DataSeqs == UNION {[1..n -> PointSet] : n \in 0..MaxPoints}

\* utils.get_line_style: the keys of a line style
LineStyles ==
    [alpha : {1}, color : {"#0000FF", "none"}, linewidth : {1, 2},
     dasharray : {"10,0", "6,6"}, zorder : {2}]
IsLineStyle(style) ==
    DOMAIN style = {"alpha", "color", "linewidth", "dasharray", "zorder"}

\* dictionaries that are no line styles
BadLineStyles ==
    {DictDel([alpha |-> 1, color |-> "#0000FF", linewidth |-> 2,
              dasharray |-> "10,0", zorder |-> 2], k) :
        k \in {"color", "linewidth"}}
    \cup {[alpha |-> 1, color |-> "#0000FF", linewidth |-> 2,
           dasharray |-> "10,0", zorder |-> 2, facecolor |-> "#FF0000"]}

\* utils.get_marker_style: the keys of a marker style; markerpath is the
\* (vertices, codes) pair SVG_path returns for the glyph
MarkerPaths ==
    {<<<<<<0, 1>>, <<1, 0>>, <<0, 0>>>>, <<"M", "L", "Z">>>>,
     <<<<<<0, 0>>, <<1, 1>>>>, <<"M", "L">>>>}
MarkerStyles ==
    [alpha : {1}, facecolor : {"#FF0000", "none"}, edgecolor : {"#000000"},
     edgewidth : {1, 2}, marker : {"o"}, markerpath : MarkerPaths,
     zorder : {2}]

\* the elements of the sequences of a path collection, told apart by index
PathElem(i) == <<<<<<i, 0>>, <<i, i>>>>, <<"M", "L">>>>
TransformElem(i) == <<<<i + 1, 0, i>>, <<0, 1, 0>>, <<0, 0, 1>>>>
OffsetElem(i) == <<10 * i, 10 * i + 1>>
EdgeColorElem(i) == IF i % 2 = 1 THEN Rgb(0, 0, 2) ELSE NoneString
FaceColorElem(i) == IF i % 2 = 1 THEN Rgb(2, 1, 0) ELSE Rgb(0, 2, 0)
LineWidthElem(i) == i
PathsOfLen(n) == [i \in 1..n |-> PathElem(i)]
TransformsOfLen(n) == [i \in 1..n |-> TransformElem(i)]
OffsetsOfLen(n) == [i \in 1..n |-> OffsetElem(i)]
EdgeColorsOfLen(n) == [i \in 1..n |-> EdgeColorElem(i)]
FaceColorsOfLen(n) == [i \in 1..n |-> FaceColorElem(i)]
LineWidthsOfLen(n) == [i \in 1..n |-> LineWidthElem(i)]

CollectionCalls ==
    {[name |-> "draw_path_collection",
      paths |-> PathsOfLen(np),
      path_coordinates |-> pc,
      path_transforms |-> TransformsOfLen(nt),
      offsets |-> OffsetsOfLen(no),
      offset_coordinates |-> oc,
      offset_order |-> oo,
      styles |-> [edgecolor |-> EdgeColorsOfLen(ne),
                  linewidth |-> LineWidthsOfLen(nl),
                  facecolor |-> FaceColorsOfLen(nf),
                  alpha |-> 1, zorder |-> 1]] :
        np \in 0..MaxPaths, nt \in 0..MaxTransforms, no \in 0..MaxOffsets,
        ne \in 0..MaxStyleLen, nl \in 0..MaxStyleLen, nf \in 0..MaxStyleLen,
        pc \in Coordinates, oc \in Coordinates, oo \in {"before", "after"}}

TextStyles == {[alpha |-> 1, fontsize |-> 12, color |-> "#000000"]}

InitLeaf ==
    /\ cls \in Classes
    /\ current_fig = "Unset"
    /\ fig_properties = "Unset"
    /\ current_ax = "Unset"
    /\ ax_properties = "Unset"
    /\ stack = <<>>
    /\ entered = 0
    /\ log = <<>>
    /\ calls = <<>>
    /\ result = NoResult
    /\ \/ op \in [name : {"draw_line"}, data : DataSeqs,
                  coordinates : Coordinates,
                  style : LineStyles \cup BadLineStyles]
       \/ op \in [name : {"draw_markers"}, data : DataSeqs,
                  coordinates : Coordinates, style : MarkerStyles]
       \* renderer.py's Renderer has no other leaf
       \/ /\ cls # "renderer.Renderer"
          /\ \/ op \in CollectionCalls
             \/ op \in [name : {"draw_path"}, data : DataSeqs,
                        coordinates : Coordinates,
                        pathcodes : {<<"M">>, <<"M", "L", "Z">>},
                        style : TextStyles]
             \/ op \in [name : {"draw_text"}, text : {"", "label"},
                        position : PointSet, coordinates : Coordinates,
                        style : TextStyles]
             \/ op \in [name : {"draw_image"}, imdata : {"", "iVBORw0KGgo="},
                        extent : {<<0, 1, 0, 1>>}, coordinates : Coordinates,
                        style : TextStyles]

Finish(r) ==
    /\ calls' = r.calls
    /\ result' = r.result
    /\ UNCHANGED <<cls, current_fig, fig_properties, current_ax,
                   ax_properties, stack, entered, log, op>>

DrawLine ==
    /\ op.name = "draw_line" /\ result = NoResult
    /\ Finish(draw_line(cls, op.data, op.coordinates, op.style))

DrawMarkers ==
    /\ op.name = "draw_markers" /\ result = NoResult
    /\ Finish(draw_markers(cls, op.data, op.coordinates, op.style))

DrawPathCollection ==
    /\ op.name = "draw_path_collection" /\ result = NoResult
    /\ Finish(draw_path_collection(cls, op.paths, op.path_coordinates,
                                   op.path_transforms, op.offsets,
                                   op.offset_coordinates, op.offset_order,
                                   op.styles))

DrawPath ==
    /\ op.name = "draw_path" /\ result = NoResult
    /\ Finish(RunDrawPaths(cls, <<PathCall(op.data, op.coordinates,
                                           op.pathcodes, op.style,
                                           NoOffset, "data")>>, <<>>))

DrawText ==
    /\ op.name = "draw_text" /\ result = NoResult
    /\ Finish(draw_text(cls, op.text, op.position, op.coordinates, op.style))

DrawImage ==
    /\ op.name = "draw_image" /\ result = NoResult
    /\ Finish(draw_image(cls, op.imdata, op.extent, op.coordinates, op.style))

NextLeaf ==
    \/ DrawLine
    \/ DrawMarkers
    \/ DrawPathCollection
    \/ DrawPath
    \/ DrawText
    \/ DrawImage

SpecLeaf == InitLeaf /\ [][NextLeaf]_vars

-----------------------------------------------------------------------------
(* Claims about the leaf operations                                        *)

Done == result # NoResult

\* the i-th cyclic element of e, counting calls from 1
IthCyclic(e, i) == e[((i - 1) % Len(e)) + 1]

\* C4: every default draw_path_collection call with offset_order other
\* than "before" emits exactly N = max(len(paths), len(offsets)) draw_path
\* calls, whichever sequences are shorter than N, and call i carries the
\* i-th cyclic element of paths, path transforms (identity when there are
\* none), offsets, edge colors and face colors ('none' when there are
\* none) and line widths.
C4_ExactlyNDrawPaths ==
    (cls = "Concrete" /\ op.name = "draw_path_collection" /\ Done
        /\ op.offset_order # "before")
    => /\ Len(calls) = Max(Len(op.paths), Len(op.offsets))
       /\ \A i \in 1..Len(calls) :
             /\ calls[i].pathcodes = IthCyclic(op.paths, i)[2]
             /\ calls[i].data =
                   AffineTransform(IF Len(op.path_transforms) = 0 THEN Eye3
                                   ELSE IthCyclic(op.path_transforms, i),
                                   IthCyclic(op.paths, i)[1])
             /\ calls[i].offset = IthCyclic(op.offsets, i)
             /\ calls[i].style["edgecolor"] =
                   (IF Len(op.styles["edgecolor"]) = 0 THEN "none"
                    ELSE color_to_hex(IthCyclic(op.styles["edgecolor"], i)))
             /\ calls[i].style["facecolor"] =
                   (IF Len(op.styles["facecolor"]) = 0 THEN "none"
                    ELSE color_to_hex(IthCyclic(op.styles["facecolor"], i)))
             /\ calls[i].style["edgewidth"] = IthCyclic(op.styles["linewidth"], i)

\* C5: draw_path_collection with offset_order "before" fails with a
\* not-implemented error whatever the other arguments are (empty paths and
\* offsets included), before any draw_path call is made.
C5_BeforeAlwaysFails ==
    (op.name = "draw_path_collection" /\ Done /\ op.offset_order = "before")
    => /\ result.outcome = "NotImplementedError"
       /\ calls = <<>>

C5_Witness ==
    /\ cls = "Concrete"
    /\ op.name = "draw_path_collection"
    /\ op.offset_order = "before"
    /\ Len(op.paths) = MaxPaths
    /\ Len(op.offsets) = MaxOffsets
    /\ Len(op.styles["linewidth"]) > 0
    /\ result.outcome = "NotImplementedError"

\* C7: the default draw_line on an (N,2) array and a line style makes one
\* draw_path call: vertices unchanged, the coordinate tag passed in,
\* commands [Move] followed by N-1 (none for N = 0) Line commands, and the
\* style with color as edgecolor, linewidth as edgewidth, facecolor "none"
\* and every other field carried over.
C7_DrawLine ==
    (cls = "Concrete" /\ op.name = "draw_line" /\ Done /\ IsLineStyle(op.style))
    => /\ result.outcome = "ok"
       /\ Len(calls) = 1
       /\ calls[1].data = op.data
       /\ calls[1].coordinates = op.coordinates
       /\ Len(calls[1].pathcodes) =
             (IF Len(op.data) >= 1 THEN Len(op.data) ELSE 1)
       /\ calls[1].pathcodes[1] = "M"
       /\ \A n \in 2..Len(calls[1].pathcodes) : calls[1].pathcodes[n] = "L"
       /\ DOMAIN calls[1].style =
             (DOMAIN op.style \ {"color", "linewidth"})
                \cup {"edgecolor", "edgewidth", "facecolor"}
       /\ calls[1].style["edgecolor"] = op.style["color"]
       /\ calls[1].style["edgewidth"] = op.style["linewidth"]
       /\ calls[1].style["facecolor"] = "none"
       /\ \A k \in DOMAIN op.style \ {"color", "linewidth"} :
             calls[1].style[k] = op.style[k]

\* data [(0,0),(1,1),(2,0)], color "#0000FF", width 2
C7_Witness ==
    /\ cls = "Concrete"
    /\ op.name = "draw_line"
    /\ op.data = <<<<0, 0>>, <<1, 1>>, <<2, 0>>>>
    /\ IsLineStyle(op.style)
    /\ op.style["color"] = "#0000FF"
    /\ op.style["linewidth"] = 2
    /\ Len(calls) = 1
    /\ calls[1].pathcodes = <<"M", "L", "L">>
    /\ calls[1].style["edgecolor"] = "#0000FF"
    /\ calls[1].style["facecolor"] = "none"
    /\ calls[1].style["edgewidth"] = 2

\* C8: the default draw_markers on N data points emits N draw_path calls,
\* one per point in data order, each with the marker glyph (vertices and
\* commands) in "points" space, the point as offset in the caller's
\* coordinate space, and a style of exactly alpha, edgecolor, facecolor,
\* edgewidth from the marker style plus dasharray "10,0".
C8_DrawMarkers ==
    (cls = "Concrete" /\ op.name = "draw_markers" /\ Done)
    => /\ result.outcome = "ok"
       /\ Len(calls) = Len(op.data)
       /\ \A n \in 1..Len(calls) :
             /\ calls[n].data = op.style["markerpath"][1]
             /\ calls[n].pathcodes = op.style["markerpath"][2]
             /\ calls[n].coordinates = "points"
             /\ calls[n].offset = op.data[n]
             /\ calls[n].offset_coordinates = op.coordinates
             /\ DOMAIN calls[n].style =
                   {"alpha", "edgecolor", "facecolor", "edgewidth", "dasharray"}
             /\ \A k \in {"alpha", "edgecolor", "facecolor", "edgewidth"} :
                   calls[n].style[k] = op.style[k]
             /\ calls[n].style["dasharray"] = "10,0"

C8_Witness ==
    /\ cls = "Concrete"
    /\ op.name = "draw_markers"
    /\ op.coordinates = "data"
    /\ op.data = <<<<2, 0>>, <<0, 0>>, <<1, 1>>>>
    /\ Len(calls) = 3
    /\ calls[1].offset = <<2, 0>>
    /\ calls[3].offset = <<1, 1>>
    /\ result.outcome = "ok"

\* the arguments are of the documented shape
WellFormedArgs == op.name = "draw_line" => IsLineStyle(op.style)

\* C10: on a Renderer without a concrete override, draw_path, draw_text,
\* draw_image and every other leaf draw operation (draw_line,
\* draw_markers, draw_path_collection) fail with a not-implemented error
\* for every argument value.
C10_EveryLeafFails ==
    (cls # "Concrete" /\ Done /\ WellFormedArgs)
    => result.outcome = "NotImplementedError"

\* C10 as amended: draw_path, draw_text, draw_image always fail with the
\* not-implemented error, and so do renderer.py's draw_line and
\* draw_markers; base.py's draw_line on a line style fails with it;
\* base.py's draw_markers and draw_path_collection fail with it exactly
\* when they reach a draw_path call (at least one data point; paths,
\* offsets and line widths all non-empty) or offset_order is "before",
\* and otherwise return normally having drawn nothing.
C10_FailsWhenDrawPathReached ==
    (cls # "Concrete" /\ Done)
    => /\ op.name \in {"draw_path", "draw_text", "draw_image"}
            => result.outcome = "NotImplementedError"
       /\ (op.name = "draw_line"
              /\ (cls = "renderer.Renderer" \/ IsLineStyle(op.style)))
            => result.outcome = "NotImplementedError"
       /\ op.name = "draw_markers"
            => IF cls = "renderer.Renderer" \/ Len(op.data) >= 1
               THEN result.outcome = "NotImplementedError"
               ELSE result.outcome = "ok" /\ calls = <<>>
       /\ op.name = "draw_path_collection"
            => IF \/ op.offset_order = "before"
                  \/ /\ Len(op.paths) >= 1
                     /\ Len(op.offsets) >= 1
                     /\ Len(op.styles["linewidth"]) >= 1
               THEN result.outcome = "NotImplementedError"
               ELSE result.outcome = "ok" /\ calls = <<>>

\* base.py's draw_markers on no data points returns normally
C10_Witness ==
    /\ cls = "base.Renderer"
    /\ op.name = "draw_markers"
    /\ op.data = <<>>
    /\ result.outcome = "ok"
    /\ calls = <<>>

-----------------------------------------------------------------------------
(* utils.py: get_dasharray and SVG_path                                    *)

MaxSegments == 3     \* drawing commands of a path given to SVG_path

\* the names bound in the namespace of module utils: its imports (lines
\* 5-16) and its own definitions
UtilsGlobals ==
    {"itertools", "io", "base64", "np", "matplotlib", "colorConverter",
     "Path", "MarkerStyle", "Affine2D", "ticker",
     "color_to_hex", "many_to_one", "LINESTYLES", "get_dasharray",
     "PATH_DICT", "SVG_path", "get_path_style", "get_line_style",
     "get_marker_style", "get_text_style", "get_axis_properties",
     "image_to_base64"}

\* many_to_one: the dict {keys -> val} turned into {key -> val}; a dict of
\* pairs <<keys, val>> becomes a function on the union of the key sets
many_to_one(input_dict) ==
    [key \in UNION {kv[1] : kv \in input_dict} |->
        (CHOOSE kv \in input_dict : key \in kv[1])[2]]

\* the key (None, None) is written "(None, None)"
LINESTYLES ==
    many_to_one({<<{"solid", "-", "(None, None)"}, "10,0">>,
                 <<{"dashed", "--"}, "6,6">>,
                 <<{"dotted", ":"}, "2,2">>,
                 <<{"dashdot", "-."}, "4,4,2,4">>,
                 <<{"", " ", "None", "none"}, "none">>})

Digits == <<"0", "1", "2", "3", "4", "5", "6", "7", "8", "9">>

\* str(n) for an integer n >= 0
RECURSIVE Str(_)
Str(n) == IF n < 10 THEN Digits[n + 1]
          ELSE Str(n \div 10) \o Digits[(n % 10) + 1]

\* ','.join(strs)
RECURSIVE JoinComma(_)
JoinComma(strs) ==
    IF Len(strs) = 0 THEN ""
    ELSE IF Len(strs) = 1 THEN strs[1]
    ELSE strs[1] \o "," \o JoinComma(Tail(strs))

Value(v, warned) == [outcome |-> "ok", value |-> v, warned |-> warned]

\* get_dasharray that looks the named style up first and uses the dash
\* sequence only for a style it does not know
get_dasharray_style_first(obj, i) ==
    LET ls == IF i.given THEN obj.linestyle[i.value + 1] ELSE obj.linestyle[1]
    IN  IF HasKey(LINESTYLES, ls) THEN Value(LINESTYLES[ls], <<>>)
        ELSE IF HasKey(obj.dict, "_dashSeq") /\ ~obj.dict["_dashSeq"].none
        THEN Value(JoinComma([n \in 1..Len(obj.dict["_dashSeq"].seq) |->
                                 Str(obj.dict["_dashSeq"].seq[n])]), <<>>)
        ELSE IF "warnings" \notin UtilsGlobals THEN Raised("NameError")
        ELSE Value(LINESTYLES["-"], <<"dash style not understood">>)

\* get_dasharray(obj, i).  obj.dict is obj.__dict__ (a "_dashSeq" entry is
\* [none |-> TRUE] for None, or carries the sequence); obj.linestyle is
\* what get_linestyle() returns: a one-element sequence stands for a single
\* style (i not given), a longer one is indexed by i.
get_dasharray(obj, i) ==
    IF HasKey(obj.dict, "_dashSeq") /\ ~obj.dict["_dashSeq"].none
    THEN Value(JoinComma([n \in 1..Len(obj.dict["_dashSeq"].seq) |->
                             Str(obj.dict["_dashSeq"].seq[n])]), <<>>)
    ELSE
    LET ls == IF i.given THEN obj.linestyle[i.value + 1] ELSE obj.linestyle[1]
    IN  IF HasKey(LINESTYLES, ls) THEN Value(LINESTYLES[ls], <<>>)
        \* warnings.warn(...): the name warnings is looked up in the module
        ELSE IF "warnings" \notin UtilsGlobals THEN Raised("NameError")
        ELSE Value(LINESTYLES["-"],
                   <<"dash style '" \o ls \o "' not understood: defaulting to solid.">>)

\* PATH_DICT, keyed by the names of the matplotlib Path codes
PATH_DICT ==
    [LINETO |-> "L", MOVETO |-> "M", CURVE3 |-> "S", CURVE4 |-> "C",
     CLOSEPOLY |-> "Z"]

\* matplotlib Path.NUM_VERTICES_FOR_CODE: vertex entries a command occupies
NumVertices(code) ==
    CASE code = "CURVE3" -> 2
      [] code = "CURVE4" -> 3
      [] OTHER -> 1

\* A matplotlib Path made of the given commands: one code per vertex entry,
\* vertex n being (n, 2n + 1).
RECURSIVE PathCodes(_)
PathCodes(units) ==
    IF units = <<>> THEN <<>>
    ELSE Repeat(Head(units), NumVertices(Head(units))) \o PathCodes(Tail(units))

MakePath(units) ==
    LET codes == PathCodes(units)
    IN  [vertices |-> [n \in 1..Len(codes) |-> <<n, 2 * n + 1>>],
         codes |-> codes]

\* path.transformed(transform)
Transformed(path, transform) ==
    [vertices |-> AffineTransform(transform, path.vertices),
     codes |-> path.codes]

\* path.iter_segments(simplify=False) from vertex entry n on: each command
\* yields its vertices, flattened, and its code; STOP ends the iteration.
RECURSIVE IterSegments(_, _)
IterSegments(path, n) ==
    IF n > Len(path.codes) \/ path.codes[n] = "STOP" THEN <<>>
    ELSE LET num == NumVertices(path.codes[n])
             flat == [k \in 1..(2 * num) |->
                         path.vertices[n + ((k - 1) \div 2)][((k - 1) % 2) + 1]]
         IN  <<[vertices |-> flat, code |-> path.codes[n]]>>
                 \o IterSegments(path, n + num)

\* Simplification is matplotlib's: it applies to paths without curves and
\* leaves out line segments of its choosing; drop is the set it leaves out.
Droppable(segments) ==
    IF \A n \in 1..Len(segments) : segments[n].code \in {"MOVETO", "LINETO"}
    THEN {n \in 1..Len(segments) : segments[n].code = "LINETO"}
    ELSE {}

RECURSIVE Keep(_, _, _)
Keep(segments, drop, n) ==
    IF n > Len(segments) THEN <<>>
    ELSE (IF n \in drop THEN <<>> ELSE <<segments[n]>>)
            \o Keep(segments, drop, n + 1)

\* itertools.chain(*vertices)
RECURSIVE Chain(_)
Chain(seqs) == IF seqs = <<>> THEN <<>> ELSE Head(seqs) \o Chain(Tail(seqs))

\* np.array(flat).reshape(-1, 2)
Reshape2(flat) ==
    [n \in 1..(Len(flat) \div 2) |-> <<flat[2 * n - 1], flat[2 * n]>>]

\* the vertices of a close command kept
segment_vertices_kept(segment) == segment.vertices

\* vertices if path_code != Path.CLOSEPOLY else []
segment_vertices(segment) ==
    IF segment.code # "CLOSEPOLY" THEN segment.vertices ELSE <<>>

\* SVG_path, from the segments iter_segments yields
SVG_path(segments) ==
    LET vc_tuples == [n \in 1..Len(segments) |->
                         <<segment_vertices(segments[n]),
                           PATH_DICT[segments[n].code]>>]
    IN  IF Len(vc_tuples) = 0
        THEN [outcome |-> "ok", vertices |-> <<>>, codes |-> <<>>,
              segments |-> segments]
        ELSE [outcome |-> "ok",
              vertices |-> Reshape2(Chain([n \in 1..Len(vc_tuples) |->
                                              vc_tuples[n][1]])),
              codes |-> [n \in 1..Len(vc_tuples) |-> vc_tuples[n][2]],
              segments |-> segments]

-----------------------------------------------------------------------------
(* Inputs of the utilities                                                 *)

LineStyleNames ==
    {"solid", "-", "(None, None)", "dashed", "--", "dotted", ":",
     "dashdot", "-.", "", " ", "None", "none", "steps", "-:"}

DashSeqEntries ==
    {[none |-> TRUE, seq |-> <<>>], [none |-> FALSE, seq |-> <<5, 2>>],
     [none |-> FALSE, seq |-> <<10, 3, 1, 3>>]}

ObjDicts ==
    {[x \in {} |-> 0]} \cup {[k \in {"_dashSeq"} |-> e] : e \in DashSeqEntries}

DasharrayCalls ==
    {[name |-> "get_dasharray",
      obj |-> [dict |-> d, linestyle |-> <<ls>>],
      i |-> [given |-> FALSE, value |-> 0]] :
        d \in ObjDicts, ls \in LineStyleNames}
    \cup
    {[name |-> "get_dasharray",
      obj |-> [dict |-> d, linestyle |-> <<"dashed", ls>>],
      i |-> [given |-> TRUE, value |-> k]] :
        d \in ObjDicts, ls \in LineStyleNames, k \in {0, 1}}

PathUnits == {"MOVETO", "LINETO", "CURVE3", "CURVE4", "CLOSEPOLY", "STOP"}
UnitSeqs == UNION {[1..n -> PathUnits] : n \in 0..MaxSegments}

SVGPathCalls ==
    {[name |-> "SVG_path", path |-> MakePath(units),
      transform |-> [given |-> g, matrix |-> TransformElem(1)],
      simplify |-> simp] :
        units \in UnitSeqs, g \in BOOLEAN, simp \in BOOLEAN}

InitUtils ==
    /\ cls = "Concrete"
    /\ current_fig = "Unset"
    /\ fig_properties = "Unset"
    /\ current_ax = "Unset"
    /\ ax_properties = "Unset"
    /\ stack = <<>>
    /\ entered = 0
    /\ log = <<>>
    /\ calls = <<>>
    /\ result = NoResult
    /\ \/ op \in DasharrayCalls
       \/ op \in SVGPathCalls

GetDasharray ==
    /\ op.name = "get_dasharray" /\ result = NoResult
    /\ Finish(Outcome(<<>>, get_dasharray(op.obj, op.i)))

SVGPath ==
    /\ op.name = "SVG_path" /\ result = NoResult
    /\ LET path == IF op.transform.given
                   THEN Transformed(op.path, op.transform.matrix)
                   ELSE op.path
           all == IterSegments(path, 1)
       IN  \E drop \in SUBSET Droppable(all) :
              /\ (~op.simplify) => drop = {}
              /\ Finish(Outcome(<<>>, SVG_path(Keep(all, drop, 1))))

NextUtils ==
    \/ GetDasharray
    \/ SVGPath

SpecUtils == InitUtils /\ [][NextUtils]_vars

-----------------------------------------------------------------------------
(* Claims about the utilities                                              *)

RecognizedStyles ==
    {"solid", "-", "(None, None)", "dashed", "--", "dotted", ":",
     "dashdot", "-.", "", " ", "None", "none"}

HasDashSeq(obj) == HasKey(obj.dict, "_dashSeq") /\ ~obj.dict["_dashSeq"].none

LineStyleOf(obj, i) ==
    IF i.given THEN obj.linestyle[i.value + 1] ELSE obj.linestyle[1]

\* C6: get_dasharray on an object without an explicit dash sequence whose
\* line style is none of the recognized named styles emits a warning and
\* returns the solid pattern "10,0"; it never fails.
C6_UnknownStyleFallsBack ==
    (op.name = "get_dasharray" /\ Done /\ ~HasDashSeq(op.obj)
        /\ LineStyleOf(op.obj, op.i) \notin RecognizedStyles)
    => /\ result.outcome = "ok"
       /\ result.value = "10,0"
       /\ Len(result.warned) = 1

\* vertices a command of the returned sequence consumes; the codec writes
\* a quadratic as 'S'
Consumes(code) ==
    CASE code \in {"M", "L"} -> 1
      [] code = "S" -> 2
      [] code = "C" -> 3
      [] code = "Z" -> 0

RECURSIVE TotalConsumed(_)
TotalConsumed(codes) ==
    IF Len(codes) = 0 THEN 0
    ELSE Consumes(codes[1]) + TotalConsumed(Tail(codes))

\* C9: for every path SVG_path encodes, with or without transform and
\* simplify, the vertices consumed by the returned commands (Move/Line 1,
\* Quadratic 2, Cubic 3, Close 0) equal the length of the returned vertex
\* array, there is one command per segment-iteration unit, and a path
\* without segments gives an empty array and an empty sequence, no failure.
C9_CommandsConsumeVertices ==
    (op.name = "SVG_path" /\ Done)
    => /\ result.outcome = "ok"
       /\ TotalConsumed(result.codes) = Len(result.vertices)
       /\ Len(result.codes) = Len(result.segments)
       /\ \A n \in 1..Len(result.codes) :
             result.codes[n] = PATH_DICT[result.segments[n].code]
       /\ Len(result.segments) = 0
             => (Len(result.vertices) = 0 /\ Len(result.codes) = 0)

\* a transformed path with a cubic and a close: 4 vertices, 3 commands
C9_Witness ==
    /\ op.name = "SVG_path"
    /\ Done
    /\ op.transform.given
    /\ result.codes = <<"M", "C", "Z">>
    /\ Len(result.vertices) = 4

\* the fixed string of each named style
NamedDasharray(ls) ==
    CASE ls = "solid" -> "10,0"
      [] ls = "dashed" -> "6,6"
      [] ls = "dotted" -> "2,2"
      [] ls = "dashdot" -> "4,4,2,4"
      [] ls \in {"", " ", "None", "none"} -> "none"

\* the dash sequences of the inputs, joined by commas
JoinedDashSeq(seq) ==
    CASE seq = <<5, 2>> -> "5,2"
      [] seq = <<10, 3, 1, 3>> -> "10,3,1,3"

\* C11: get_dasharray maps the named styles to fixed strings (solid
\* "10,0", dashed "6,6", dotted "2,2", dashdot "4,4,2,4", any of "", " ",
\* "None", "none" to "none"), and when the object carries an explicit
\* numeric dash sequence the result is that sequence joined by commas,
\* whatever the object's named line style is.
C11_DashPatternMapping ==
    (op.name = "get_dasharray" /\ Done)
    => /\ (~HasDashSeq(op.obj)
             /\ LineStyleOf(op.obj, op.i) \in
                   {"solid", "dashed", "dotted", "dashdot",
                    "", " ", "None", "none"})
          => /\ result.outcome = "ok"
             /\ result.value = NamedDasharray(LineStyleOf(op.obj, op.i))
             /\ result.warned = <<>>
       /\ HasDashSeq(op.obj)
          => /\ result.outcome = "ok"
             /\ result.value = JoinedDashSeq(op.obj.dict["_dashSeq"].seq)

\* an explicit dash sequence on an object whose named style is "dashed"
C11_Witness ==
    /\ op.name = "get_dasharray"
    /\ Done
    /\ HasDashSeq(op.obj)
    /\ op.obj.dict["_dashSeq"].seq = <<10, 3, 1, 3>>
    /\ LineStyleOf(op.obj, op.i) = "dashed"
    /\ result.value = "10,3,1,3"

\* C12: every path the default draw_line passes to draw_path satisfies the
\* path-command invariant for vertex arrays of every length N >= 0: the
\* vertices its commands consume equal the number of its vertices, and it
\* has no more commands than vertices.
C12_LinePathInvariant ==
    (op.name = "draw_line" /\ Done /\ IsLineStyle(op.style))
    => \A n \in 1..Len(calls) :
          /\ TotalConsumed(calls[n].pathcodes) = Len(calls[n].data)
          /\ Len(calls[n].pathcodes) <= Len(calls[n].data)

====
